---- MODULE Spec2Model ----
(***************************************************************************)
(* charcoal: the two-pass theme resolver of packages/styled                *)
(* (createTheme, commonSpec, nonBlank, createBorderRadiusCss) and the      *)
(* input-length guard of the React TextField component.                    *)
(*                                                                         *)
(* JavaScript values are records tagged by `kind`, so that values of       *)
(* different JavaScript types can sit in one array and be compared.        *)
(***************************************************************************)
EXTENDS Integers, Sequences, FiniteSets, TLC

VARIABLES
    pc,                 \* position of the render-prop call: idle, fold, render, returned, thrown
    theme,              \* the `theme` argument of the current call
    spec,               \* the user callback of the current call (a symbolic template)
    o,                  \* builder(theme), or NotBuilt
    rawSpecDescriptor,  \* spec(o), or NotCalled
    specDescriptor,     \* the normalised list, implicit descriptor last
    context,            \* accumulator of the reduce (pass 1)
    i,                  \* number of descriptors folded so far
    out,                \* fragments mapped so far (pass 2)
    result,             \* the returned array, or NoResult
    error,              \* the thrown error, or NoError
    ref,                \* history: one earlier completed call, or NoRef
    maxLength,          \* TextField props.maxLength
    onChangeDefined,    \* TextField: whether props.onChange was passed
    propsValue,         \* TextField props.value
    count,              \* TextField useState count
    lastEvent           \* history: the latest event the TextField handled

themeVars == <<pc, theme, spec, o, rawSpecDescriptor, specDescriptor, context,
               i, out, result, error>>
fieldVars == <<maxLength, onChangeDefined, propsValue, count, lastEvent>>
vars == <<themeVars, ref, fieldVars>>

----------------------------------------------------------------------------
(* Bounds *)

\* longest array a user callback returns
MaxLen == 3
\* longest array a user callback returns in the two-call comparison
MaxLenDet == 2
\* longest input value, in UTF-16 code units
MaxUnits == 2
\* largest props.maxLength
MaxMaxLength == 2

----------------------------------------------------------------------------
(* JavaScript values *)

Null == [kind |-> "null"]
Undefined == [kind |-> "undefined"]
False == [kind |-> "false"]
Str(s) == [kind |-> "string", value |-> s]
Blanks == {Null, Undefined, False}

NotBuilt == [kind |-> "notBuilt"]
NotCalled == [kind |-> "notCalled"]
NoResult == [kind |-> "noResult"]
NoError == [kind |-> "noError"]
NoRef == [kind |-> "noRef"]

noThemeProvider == [kind |-> "error", name |-> "noThemeProvider"]

isPresent(value) == value # Null /\ value # Undefined

EmptyContext == [k \in {} |-> FALSE]

\* mutant: the earlier contribution wins, { ...c, ...acc }
ObjectSpreadFirstWins(acc, c) ==
    [k \in (DOMAIN acc) \cup (DOMAIN c) |-> IF k \in DOMAIN acc THEN acc[k] ELSE c[k]]

\* { ...acc, ...c }
ObjectSpread(acc, c) ==
    [k \in (DOMAIN acc) \cup (DOMAIN c) |-> IF k \in DOMAIN c THEN c[k] ELSE acc[k]]

px(value) == ToString(value) \o "px"

duration == "0.2s"

\* createInternal({ toCSS, context = {} })
createInternal(toCSS, ctx) == [kind |-> "internal", operation |-> toCSS, context |-> ctx]

\* internal(operation, context = {})
internal(operation, ctx) == [kind |-> "internal", operation |-> operation, context |-> ctx]

GetInternal(v) == [operation |-> v.operation, context |-> v.context]

----------------------------------------------------------------------------
(* builders/borderRadius.ts *)

\* mutant: the pixel suffix applied a second time
borderRadiusToCSSTwice(t, size) == [borderRadius |-> px(t.borderRadius[size]) \o "px"]

\* toCSS() { return { borderRadius: px(theme.borderRadius[size]) } }
borderRadiusToCSS(t, size) == [borderRadius |-> px(t.borderRadius[size])]

createBorderRadiusCss(t, size) ==
    createInternal([fn |-> "borderRadius", theme |-> t, size |-> size], EmptyContext)

----------------------------------------------------------------------------
(* index.ts *)

RECURSIVE Join(_, _)
Join(strs, sep) ==
    IF Len(strs) = 0 THEN ""
    ELSE IF Len(strs) = 1 THEN strs[1]
    ELSE strs[1] \o sep \o Join(Tail(strs), sep)

\* property.map((v) => `${duration} ${v}`).join(', ')
transition(property) ==
    [transition |->
        Join([n \in 1..Len(property) |-> duration \o " " \o property[n].value], ", ")]

\* mutant: a missing flag defaults to true
FlagDefaultTrue(ctx, k) == IF k \in DOMAIN ctx THEN ctx[k] ELSE TRUE

\* destructuring with default: ({ flag = false })
Flag(ctx, k) == IF k \in DOMAIN ctx THEN ctx[k] ELSE FALSE

\* mutant: the background flag read under a misspelt key
commonSpecOperationTypo(ctx) ==
    transition(SelectSeq(
        << IF Flag(ctx, "colorTransition") THEN Str("color") ELSE Null,
           IF Flag(ctx, "backgroundTransition") THEN Str("background-color") ELSE Null,
           IF Flag(ctx, "boxShadowTransition") THEN Str("box-shadow") ELSE Null >>,
        isPresent))

commonSpecOperation(ctx) ==
    transition(SelectSeq(
        << IF Flag(ctx, "colorTransition") THEN Str("color") ELSE Null,
           IF Flag(ctx, "backgroundColorTransition") THEN Str("background-color") ELSE Null,
           IF Flag(ctx, "boxShadowTransition") THEN Str("box-shadow") ELSE Null >>,
        isPresent))

commonSpec(t) == internal([fn |-> "commonSpec"], EmptyContext)

nonBlank(value) == isPresent(value) /\ value # False

\* __DO_NOT_USE_GET_INTERNAL__(v).operation(context)
Operation(v, ctx) ==
    LET op == GetInternal(v).operation
    IN  CASE op.fn = "commonSpec" -> commonSpecOperation(ctx)
          [] op.fn = "borderRadius" -> borderRadiusToCSS(op.theme, op.size)
          [] op.fn = "static" -> op.css
          [] op.fn = "probe" -> [probe |-> op.name, seen |-> ctx]

\* colors(theme): o.bg.surface3.hover asks for a background-color transition
bgSurface3Hover(t) ==
    createInternal([fn |-> "static", css |-> [hover |-> "surface3"]],
                   [backgroundColorTransition |-> TRUE])

\* the `o` of theme(o => [...])
builder(t) ==
    [kind |-> "builder",
     borderRadius |-> [size \in DOMAIN t.borderRadius |-> createBorderRadiusCss(t, size)],
     bgSurface3Hover |-> bgSurface3Hover(t)]

----------------------------------------------------------------------------
(* Inputs: themes and user callbacks *)

Theme1 == [kind |-> "theme", borderRadius |-> [x |-> 8, y |-> 16]]
Theme2 == [kind |-> "theme", borderRadius |-> [x |-> 4]]
Themes == {Theme1, Theme2}
AbsentThemes == {Undefined, Null}

\* context contributions of hand-made descriptors
UserContexts ==
    { [colorTransition |-> TRUE], [colorTransition |-> FALSE],
      [backgroundColorTransition |-> FALSE], [boxShadowTransition |-> TRUE] }

\* what a user callback can put in its result: a blank, o.borderRadius(size),
\* o.bg.surface3.hover, or a descriptor whose fragment depends on the context
BlankExprs == { [expr |-> "blank", value |-> b] : b \in Blanks }
RadiusExprs(t) == { [expr |-> "o.borderRadius", size |-> k] : k \in DOMAIN t.borderRadius }
HoverExpr == [expr |-> "o.bg.surface3.hover"]
ProbeExprs == { [expr |-> "createInternal", context |-> c] : c \in UserContexts }
ItemExprs(t) == BlankExprs \cup RadiusExprs(t) \cup {HoverExpr} \cup ProbeExprs

DetItemExprs ==
    { [expr |-> "blank", value |-> Null], [expr |-> "o.borderRadius", size |-> "x"],
      [expr |-> "createInternal", context |-> [colorTransition |-> TRUE]] }

SeqsUpTo(S, n) == UNION { [1..m -> S] : m \in 0..n }

SpecsOver(S, n) ==
    { [kind |-> "bare", item |-> e] : e \in S }
        \cup { [kind |-> "array", items |-> es] : es \in SeqsUpTo(S, n) }

\* the value of one element of the callback's result
EvalItem(e, b) ==
    CASE e.expr = "blank" -> e.value
      [] e.expr = "o.borderRadius" -> b.borderRadius[e.size]
      [] e.expr = "o.bg.surface3.hover" -> b.bgSurface3Hover
      [] e.expr = "createInternal" ->
            createInternal([fn |-> "probe", name |-> e.context], e.context)

\* spec(o)
CallSpec(s, b) ==
    IF s.kind = "array"
    THEN [kind |-> "array", items |-> [n \in 1..Len(s.items) |-> EvalItem(s.items[n], b)]]
    ELSE EvalItem(s.item, b)

ArrayIsArray(v) == v.kind = "array"

----------------------------------------------------------------------------
(* createTheme(...)(spec)({ theme }) *)

\* mutant: the implicit descriptor put first
NormalizeImplicitFirst(raw, t) ==
    SelectSeq(<<commonSpec(t)>> \o (IF ArrayIsArray(raw) THEN raw.items ELSE <<raw>>),
              nonBlank)

\* mutant: a result that is not an array is dropped
NormalizeDropBare(raw, t) ==
    SelectSeq((IF ArrayIsArray(raw) THEN raw.items ELSE <<>>) \o <<commonSpec(t)>>,
              nonBlank)

\* [...(Array.isArray(raw) ? raw : [raw]), commonSpec(theme)].filter(nonBlank)
Normalize(raw, t) ==
    SelectSeq((IF ArrayIsArray(raw) THEN raw.items ELSE <<raw>>) \o <<commonSpec(t)>>,
              nonBlank)

\* mutant: the accumulator of an earlier call is reused
InitialContextLeaky(previous) == previous

\* the initial value of the reduce
InitialContext(previous) == EmptyContext

\* history: whether a call with another theme or callback followed the remembered one
RefAfterCall(t, s) ==
    IF ref # NoRef /\ (t # ref.theme \/ s # ref.spec)
    THEN [ref EXCEPT !.between = TRUE]
    ELSE ref

\* mutant: no theme check; the builder fails on the absent theme instead
RenderPropUnchecked(t, s) ==
    /\ theme' = t
    /\ spec' = s
    /\ i' = 0
    /\ out' = <<>>
    /\ result' = NoResult
    /\ IF ~isPresent(t)
       THEN /\ pc' = "thrown"
            /\ error' = [kind |-> "error", name |-> "TypeError"]
            /\ o' = NotBuilt
            /\ rawSpecDescriptor' = NotCalled
            /\ specDescriptor' = <<>>
            /\ UNCHANGED context
       ELSE /\ pc' = "fold"
            /\ error' = NoError
            /\ o' = builder(t)
            /\ rawSpecDescriptor' = CallSpec(s, builder(t))
            /\ specDescriptor' = Normalize(CallSpec(s, builder(t)), t)
            /\ context' = InitialContext(context)
    /\ ref' = RefAfterCall(t, s)
    /\ UNCHANGED fieldVars

RenderProp(t, s) ==
    /\ theme' = t
    /\ spec' = s
    /\ i' = 0
    /\ out' = <<>>
    /\ result' = NoResult
    /\ IF ~isPresent(t)
       THEN /\ pc' = "thrown"
            /\ error' = noThemeProvider
            /\ o' = NotBuilt
            /\ rawSpecDescriptor' = NotCalled
            /\ specDescriptor' = <<>>
            /\ UNCHANGED context
       ELSE /\ pc' = "fold"
            /\ error' = NoError
            /\ o' = builder(t)
            /\ rawSpecDescriptor' = CallSpec(s, builder(t))
            /\ specDescriptor' = Normalize(CallSpec(s, builder(t)), t)
            /\ context' = InitialContext(context)
    /\ ref' = RefAfterCall(t, s)
    /\ UNCHANGED fieldVars

\* mutant: a single pass, each descriptor rendered as soon as it is folded
FoldStepInterleaved ==
    /\ pc = "fold"
    /\ i < Len(specDescriptor)
    /\ context' = ObjectSpread(context, GetInternal(specDescriptor[i + 1]).context)
    /\ out' = Append(out, Operation(specDescriptor[i + 1], context'))
    /\ i' = i + 1
    /\ pc' = IF i + 1 = Len(specDescriptor) THEN "render" ELSE "fold"
    /\ UNCHANGED <<theme, spec, o, rawSpecDescriptor, specDescriptor, result,
                   error, ref, fieldVars>>

\* one step of specDescriptor.reduce
FoldStep ==
    /\ pc = "fold"
    /\ i < Len(specDescriptor)
    /\ context' = ObjectSpread(context, GetInternal(specDescriptor[i + 1]).context)
    /\ i' = i + 1
    /\ pc' = IF i + 1 = Len(specDescriptor) THEN "render" ELSE "fold"
    /\ UNCHANGED <<theme, spec, o, rawSpecDescriptor, specDescriptor, out, result,
                   error, ref, fieldVars>>

\* one step of specDescriptor.map
RenderStep ==
    /\ pc = "render"
    /\ Len(out) < Len(specDescriptor)
    /\ out' = Append(out, Operation(specDescriptor[Len(out) + 1], context))
    /\ UNCHANGED <<pc, theme, spec, o, rawSpecDescriptor, specDescriptor, context, i,
                   result, error, ref, fieldVars>>

ReturnEffect ==
    /\ pc = "render"
    /\ Len(out) = Len(specDescriptor)
    /\ result' = [kind |-> "array", items |-> out]
    /\ pc' = "returned"
    /\ UNCHANGED <<theme, spec, o, rawSpecDescriptor, specDescriptor, context, i, out,
                   error, fieldVars>>

Return == ReturnEffect /\ UNCHANGED ref

\* the same return, remembered for comparison with a later call
ReturnObserved ==
    /\ ReturnEffect
    /\ ref = NoRef
    /\ ref' = [kind |-> "call", theme |-> theme, spec |-> spec, result |-> result',
               between |-> FALSE]

ThemeInit ==
    /\ pc = "idle"
    /\ theme = Undefined
    /\ spec = [kind |-> "array", items |-> <<>>]
    /\ o = NotBuilt
    /\ rawSpecDescriptor = NotCalled
    /\ specDescriptor = <<>>
    /\ context = EmptyContext
    /\ i = 0
    /\ out = <<>>
    /\ result = NoResult
    /\ error = NoError
    /\ ref = NoRef

----------------------------------------------------------------------------
(* components/TextField/index.tsx *)

Num(n) == [kind |-> "number", value |-> n]

\* UTF-16 code units: a BMP character, a high surrogate, a low surrogate
Units == {"a", "H", "L"}
Values == SeqsUpTo(Units, MaxUnits)
PropValues == {Undefined} \cup { Str(v) : v \in Values }
MaxLengths == {Undefined} \cup { Num(n) : n \in 0..MaxMaxLength }

\* Array.from(string).length: a surrogate pair is one code point
RECURSIVE countCodePointsInString(_)
countCodePointsInString(string) ==
    IF Len(string) = 0 THEN 0
    ELSE IF Len(string) >= 2 /\ string[1] = "H" /\ string[2] = "L"
         THEN 1 + countCodePointsInString(SubSeq(string, 3, Len(string)))
         ELSE 1 + countCodePointsInString(Tail(string))

\* props.value ?? ''
ValueOrEmpty(v) == IF isPresent(v) THEN v.value ELSE <<>>

nonControlled == propsValue = Undefined

\* mutant: setCount before the length check
handleChangeCountFirst(value) ==
    LET c == countCodePointsInString(value)
    IN  /\ count' = IF nonControlled THEN c ELSE count
        /\ IF maxLength # Undefined /\ c > maxLength.value
           THEN lastEvent' = [kind |-> "change", value |-> value, onChange |-> NotCalled]
           ELSE lastEvent' = [kind |-> "change", value |-> value,
                              onChange |-> IF onChangeDefined THEN Str(value)
                                           ELSE NotCalled]
        /\ UNCHANGED <<maxLength, onChangeDefined, propsValue, themeVars, ref>>

handleChange(value) ==
    LET c == countCodePointsInString(value)
    IN  /\ IF maxLength # Undefined /\ c > maxLength.value
           THEN /\ UNCHANGED count
                /\ lastEvent' = [kind |-> "change", value |-> value, onChange |-> NotCalled]
           ELSE /\ count' = IF nonControlled THEN c ELSE count
                /\ lastEvent' = [kind |-> "change", value |-> value,
                                 onChange |-> IF onChangeDefined THEN Str(value)
                                              ELSE NotCalled]
        /\ UNCHANGED <<maxLength, onChangeDefined, propsValue, themeVars, ref>>

\* a render with another props.value, and the effect on [props.value] it triggers
SetPropsValue(v) ==
    /\ v # propsValue
    /\ propsValue' = v
    /\ count' = countCodePointsInString(ValueOrEmpty(v))
    /\ lastEvent' = [kind |-> "props"]
    /\ UNCHANGED <<maxLength, onChangeDefined, themeVars, ref>>

\* the mounted component: useState(countCodePointsInString(props.value ?? ''))
FieldInit ==
    /\ maxLength \in MaxLengths
    /\ onChangeDefined \in BOOLEAN
    /\ propsValue \in PropValues
    /\ count = countCodePointsInString(ValueOrEmpty(propsValue))
    /\ lastEvent = [kind |-> "mount"]

\* no TextField mounted
FieldIdle ==
    /\ maxLength = Undefined
    /\ onChangeDefined = FALSE
    /\ propsValue = Undefined
    /\ count = 0
    /\ lastEvent = [kind |-> "mount"]

Change == \E value \in Values : handleChange(value)
Rerender == \E v \in PropValues : SetPropsValue(v)

NextField == Change \/ Rerender

InitField == ThemeInit /\ FieldInit

SpecField == InitField /\ [][NextField]_vars

----------------------------------------------------------------------------

Init == ThemeInit /\ FieldIdle

\* no call is in progress (the render-prop function is synchronous)
Idle == pc \in {"idle", "returned", "thrown"}

CallAbsent ==
    /\ Idle
    /\ \E t \in AbsentThemes : RenderProp(t, [kind |-> "array", items |-> <<>>])

\* one call per behaviour, over every input; calls in sequence are SpecDet's
Call ==
    /\ pc \in {"idle", "thrown"}
    /\ \E t \in Themes : \E s \in SpecsOver(ItemExprs(t), MaxLen) : RenderProp(t, s)

Next == CallAbsent \/ Call \/ FoldStep \/ RenderStep \/ Return

Spec == Init /\ [][Next]_vars

CallDet ==
    /\ Idle
    /\ \E t \in Themes : \E s \in SpecsOver(DetItemExprs, MaxLenDet) : RenderProp(t, s)

NextDet == CallAbsent \/ CallDet \/ FoldStep \/ RenderStep \/ Return \/ ReturnObserved

SpecDet == Init /\ [][NextDet]_vars

----------------------------------------------------------------------------
(* Properties *)

ContextKeys == {"colorTransition", "backgroundColorTransition", "boxShadowTransition"}

\* the descriptors of the callback's result, in order, blanks left out
RawItems == IF rawSpecDescriptor.kind = "array" THEN rawSpecDescriptor.items
            ELSE <<rawSpecDescriptor>>
IsDescriptor(v) == v.kind = "internal"
UserDescriptors == SelectSeq(RawItems, IsDescriptor)

Contributors(k) ==
    { j \in 1..Len(UserDescriptors) : k \in DOMAIN UserDescriptors[j].context }
Last(S) == CHOOSE j \in S : \A m \in S : m <= j

\* per key, the value of the last descriptor that contributes it
ExpectedContext ==
    [k \in { key \in ContextKeys : Contributors(key) # {} } |->
        UserDescriptors[Last(Contributors(k))].context[k]]

ImplicitFragment == result.items[Len(result.items)]

ListsColor ==
    { "0.2s color", "0.2s color, 0.2s background-color", "0.2s color, 0.2s box-shadow",
      "0.2s color, 0.2s background-color, 0.2s box-shadow" }
ListsBackground ==
    { "0.2s background-color", "0.2s color, 0.2s background-color",
      "0.2s background-color, 0.2s box-shadow",
      "0.2s color, 0.2s background-color, 0.2s box-shadow" }
ListsShadow ==
    { "0.2s box-shadow", "0.2s color, 0.2s box-shadow",
      "0.2s background-color, 0.2s box-shadow",
      "0.2s color, 0.2s background-color, 0.2s box-shadow" }
AllTransitions == {""} \cup ListsColor \cup ListsBackground \cup ListsShadow

\* C1: the shared context holds, for every key, the value contributed by the
\* last descriptor of the list that contributes it; when the last contribution
\* of colorTransition is false, the implicit fragment does not list color.
ContextLastWriteWins ==
    /\ pc \in {"render", "returned"} => context = ExpectedContext
    /\ (pc = "returned" /\ Contributors("colorTransition") # {}
            /\ ~ExpectedContext["colorTransition"])
        => ImplicitFragment.transition \notin ListsColor

LastWriteWitness ==
    /\ pc = "returned"
    /\ \E j1, j2 \in 1..Len(UserDescriptors) :
          /\ j1 < j2
          /\ UserDescriptors[j1].context = [colorTransition |-> TRUE]
          /\ UserDescriptors[j2].context = [colorTransition |-> FALSE]
    /\ ImplicitFragment.transition \notin ListsColor

\* C2: the returned array holds the fragments of the k descriptors of the
\* callback's result, in their order, then the implicit fragment: k + 1
\* fragments, none for a blank.
BlankFiltering ==
    pc = "returned" =>
        /\ Len(result.items) = Len(UserDescriptors) + 1
        /\ \A j \in 1..Len(UserDescriptors) :
              result.items[j] = Operation(UserDescriptors[j], context)
        /\ DOMAIN ImplicitFragment = {"transition"}

BlankFilteringWitness ==
    /\ pc = "returned"
    /\ rawSpecDescriptor.kind = "array"
    /\ Len(rawSpecDescriptor.items) = 3
    /\ IsDescriptor(rawSpecDescriptor.items[1])
    /\ rawSpecDescriptor.items[2] = False
    /\ IsDescriptor(rawSpecDescriptor.items[3])
    /\ rawSpecDescriptor.items[1] # rawSpecDescriptor.items[3]
    /\ Len(result.items) = 3

\* C3: a call with an absent theme throws noThemeProvider, returns nothing, and
\* has neither built the builder, called the callback, folded nor rendered.
MissingTheme ==
    /\ pc = "thrown" =>
          /\ error = noThemeProvider
          /\ result = NoResult
          /\ o = NotBuilt
          /\ rawSpecDescriptor = NotCalled
          /\ i = 0
          /\ out = <<>>
    /\ (pc # "idle" /\ theme \in AbsentThemes) => pc = "thrown"
    /\ pc \in {"fold", "render", "returned"} => error = NoError

MissingThemeWitness ==
    pc = "thrown" /\ theme = Undefined /\ error = noThemeProvider

\* C4: when a descriptor contributes backgroundColorTransition: true and none
\* after it contributes that key again, the implicit fragment lists
\* background-color.
CrossDeclarationCoupling ==
    (/\ pc = "returned"
     /\ \E j \in Contributors("backgroundColorTransition") :
          /\ UserDescriptors[j].context["backgroundColorTransition"]
          /\ \A m \in Contributors("backgroundColorTransition") : m <= j)
    => ImplicitFragment.transition \in ListsBackground

CouplingWitness ==
    /\ pc = "returned"
    /\ spec = [kind |-> "array", items |-> <<HoverExpr>>]
    /\ ImplicitFragment.transition = "0.2s background-color"

\* C5: a callback returning the bare descriptor d yields the same array as a
\* callback returning [d], for the same theme.
SingletonNormalization ==
    (/\ pc = "returned"
     /\ ref # NoRef
     /\ ref.theme = theme
     /\ \/ spec.kind = "bare" /\ spec.item.expr # "blank"
            /\ ref.spec = [kind |-> "array", items |-> <<spec.item>>]
        \/ ref.spec.kind = "bare" /\ ref.spec.item.expr # "blank"
            /\ spec = [kind |-> "array", items |-> <<ref.spec.item>>])
    => result = ref.result

SingletonWitness ==
    /\ pc = "returned"
    /\ ref # NoRef
    /\ ref.theme = theme
    /\ spec.kind = "bare"
    /\ spec.item.expr = "o.borderRadius"
    /\ ref.spec = [kind |-> "array", items |-> <<spec.item>>]
    /\ Len(result.items) = 2

\* C6: a call with the theme and callback of an earlier call returns what the
\* earlier call returned, whatever calls were made in between.
Determinism ==
    (pc = "returned" /\ ref # NoRef /\ ref.theme = theme /\ ref.spec = spec)
    => result = ref.result

\* the same call made again after a different call
DeterminismWitness ==
    /\ pc = "returned"
    /\ ref # NoRef
    /\ ref.between
    /\ ref.theme = theme
    /\ ref.spec = spec
    /\ spec.kind = "array"
    /\ Len(spec.items) = 2
    /\ result = ref.result
    /\ Len(result.items) = 3

\* C7: o.borderRadius(size) renders { borderRadius: <theme value>px }, the
\* suffix once, and contributes nothing to the context.
PxOf(n) == CASE n = 4 -> "4px" [] n = 8 -> "8px" [] n = 16 -> "16px"

UnitFormatting ==
    \A j \in 1..Len(out) :
        specDescriptor[j].operation.fn = "borderRadius" =>
            /\ specDescriptor[j].operation.size \in DOMAIN theme.borderRadius
            /\ out[j] = [borderRadius |->
                            PxOf(theme.borderRadius[specDescriptor[j].operation.size])]
            /\ specDescriptor[j].context = EmptyContext

UnitFormattingWitness ==
    /\ pc = "returned"
    /\ theme = Theme1
    /\ spec = [kind |-> "array", items |-> <<[expr |-> "o.borderRadius", size |-> "x"]>>]
    /\ result.items[1] = [borderRadius |-> "8px"]

\* C8: no fragment is rendered before the whole list is folded, and every
\* fragment, the first included, is rendered with the final context.
TwoPass ==
    /\ Len(out) > 0 => (i = Len(specDescriptor) /\ pc \in {"render", "returned"})
    /\ \A j \in 1..Len(out) :
          /\ out[j] = Operation(specDescriptor[j], ExpectedContext)
          /\ specDescriptor[j].operation.fn = "probe" => out[j].seen = ExpectedContext

\* the first descriptor's fragment shows a flag only a later descriptor sets
TwoPassWitness ==
    /\ pc = "returned"
    /\ Len(UserDescriptors) >= 2
    /\ UserDescriptors[1].operation.fn = "probe"
    /\ "boxShadowTransition" \notin DOMAIN UserDescriptors[1].context
    /\ "boxShadowTransition" \in DOMAIN out[1].seen
    /\ ImplicitFragment.transition \in ListsShadow

\* C9: the implicit fragment is { transition: t } where t lists color,
\* background-color and box-shadow, in that order, each after the duration and
\* joined by ", ", exactly for the flags that are true in the context; no flag
\* true gives the empty string.
On(k) == k \in DOMAIN context /\ context[k] = TRUE

TransitionShape ==
    pc = "returned" =>
        /\ DOMAIN ImplicitFragment = {"transition"}
        /\ ImplicitFragment.transition \in AllTransitions
        /\ ImplicitFragment.transition \in ListsColor <=> On("colorTransition")
        /\ ImplicitFragment.transition \in ListsBackground
              <=> On("backgroundColorTransition")
        /\ ImplicitFragment.transition \in ListsShadow <=> On("boxShadowTransition")
        /\ (\A k \in ContextKeys : ~On(k)) => ImplicitFragment.transition = ""

\* the flags set in the order box-shadow, background-color, color
TransitionShapeWitness ==
    /\ pc = "returned"
    /\ Len(UserDescriptors) = 3
    /\ UserDescriptors[1].context = [boxShadowTransition |-> TRUE]
    /\ UserDescriptors[3].context = [colorTransition |-> TRUE]
    /\ ImplicitFragment.transition = "0.2s color, 0.2s background-color, 0.2s box-shadow"

\* C10: a change whose value has more code points than maxLength is dropped
\* (no onChange, count kept); any other change calls onChange with the value
\* and sets count to the value's code points only when props.value is
\* undefined; with props.value defined count changes only when props.value
\* does; so with props.value undefined count never exceeds maxLength.
CodePoints(v) ==
    Len(v) - Cardinality({ j \in 1..(Len(v) - 1) : v[j] = "H" /\ v[j + 1] = "L" })
TooLong(v) == maxLength # Undefined /\ CodePoints(v) > maxLength.value

FieldGuardInv ==
    /\ (propsValue = Undefined /\ maxLength # Undefined) => count <= maxLength.value
    /\ lastEvent.kind = "change" =>
          lastEvent.onChange = IF TooLong(lastEvent.value) \/ ~onChangeDefined
                               THEN NotCalled ELSE Str(lastEvent.value)

FieldGuardStep ==
    /\ lastEvent'.kind = "change" =>
          count' = IF ~TooLong(lastEvent'.value) /\ propsValue = Undefined
                   THEN CodePoints(lastEvent'.value) ELSE count
    /\ (propsValue # Undefined /\ count' # count) => propsValue' # propsValue

InputLengthGuard == []FieldGuardInv /\ [][FieldGuardStep]_vars

InputLengthGuardWitness ==
    /\ lastEvent.kind = "change"
    /\ TooLong(lastEvent.value)
    /\ propsValue = Undefined
    /\ onChangeDefined
    /\ count = maxLength.value
    /\ count > 0

====
